---------------------------- MODULE Spec2Model ----------------------------
(***************************************************************************)
(* A model of node-ffmetadata (src/index.ts): the read and write calls,    *)
(* the argument builders, the ini decoder, and the child process and the   *)
(* filesystem they drive.                                                  *)
(*                                                                         *)
(* Strings are sequences of one-character strings, so that slicing,        *)
(* searching and concatenation are computed as the code computes them.     *)
(* An optional value (undefined or a value) is a sequence of length 0 or 1.*)
(***************************************************************************)
EXTENDS Integers, Sequences, FiniteSets, TLC

VARIABLES
    fs,        \* the filesystem: path -> content, or Absent
    call,      \* the call in progress: its arguments, locals and position
    proc,      \* the child process of the call (spawn's ChildProcess)
    output,    \* the ini decoder of a read: parseini's stream.data, key, split's remainder
    error,     \* concat(): the standard-error bytes collected so far
    events,    \* the events the call's through() stream emitted, in order
    cbCalls,   \* the invocations of the caller's callback, in order
    fsOps,     \* the fs.rename / fs.unlink calls the call made, in order
    fs0,       \* the filesystem when the call in progress started
    ncalls,    \* how many calls were started
    lastWrite, \* the last write that was committed: its source, its record, the
               \* metadata the file held before (none yet: <<>>)
    writers    \* write calls in flight at the same time: each one's locals,
               \* process and position

vars == <<fs, call, proc, output, error, events, cbCalls, fsOps, fs0, ncalls, lastWrite, writers>>

-----------------------------------------------------------------------------
(* Bounds *)

MaxCalls == 2
MaxAttachments == 2
MaxLines == 3

-----------------------------------------------------------------------------
(* JavaScript string primitives *)

Min(a, b) == IF a < b THEN a ELSE b
Max(a, b) == IF a > b THEN a ELSE b

\* String.prototype.indexOf for a one-character needle: 0-based, -1 when absent.
indexOf(s, ch) ==
    IF \E i \in 1..Len(s) : s[i] = ch
    THEN (CHOOSE i \in 1..Len(s) : s[i] = ch /\ \A j \in 1..(i-1) : s[j] # ch) - 1
    ELSE -1

\* String.prototype.lastIndexOf for a one-character needle.
lastIndexOf(s, ch) ==
    IF \E i \in 1..Len(s) : s[i] = ch
    THEN (CHOOSE i \in 1..Len(s) : s[i] = ch /\ \A j \in (i+1)..Len(s) : s[j] # ch) - 1
    ELSE -1

\* String.prototype.slice(b, e): a negative index counts from the end; -0 is 0.
slice(s, b, e) ==
    LET from == IF b < 0 THEN Max(Len(s) + b, 0) ELSE Min(b, Len(s))
        to   == IF e < 0 THEN Max(Len(s) + e, 0) ELSE Min(e, Len(s))
    IN  SubSeq(s, from + 1, to)

\* String.prototype.slice(b): to the end of the string.
sliceFrom(s, b) == slice(s, b, Len(s))

\* String.prototype.replace(pattern, by) with a one-character string pattern:
\* only the first occurrence is replaced.
replace(s, ch, by) ==
    LET i == indexOf(s, ch)
    IN  IF i = -1 THEN s ELSE slice(s, 0, i) \o by \o sliceFrom(s, i + 1)

Digits == <<"0", "1", "2", "3", "4", "5", "6", "7", "8", "9">>

\* Number-to-string conversion of a non-negative integer (inputIndex + ":0").
RECURSIVE NumToStr(_)
NumToStr(n) ==
    IF n < 10 THEN <<Digits[n + 1]>>
    ELSE NumToStr(n \div 10) \o <<Digits[(n % 10) + 1]>>

-----------------------------------------------------------------------------
(* Node's path module (POSIX), for the paths getTempPath handles *)

\* The path without its trailing slashes (a lone "/" stays).
RECURSIVE StripSlashes(_)
StripSlashes(p) ==
    IF Len(p) > 1 /\ p[Len(p)] = "/" THEN StripSlashes(SubSeq(p, 1, Len(p) - 1)) ELSE p

\* path.basename(p)
basename(p) ==
    LET q == StripSlashes(p)
    IN  IF q = <<"/">> THEN <<>> ELSE sliceFrom(q, lastIndexOf(q, "/") + 1)

\* path.extname(p): from the last dot of the basename, unless that dot is the
\* basename's first character or the basename is ".."
extname(p) ==
    LET b == basename(p)
        d == lastIndexOf(b, ".")
    IN  IF d = -1 \/ d = 0 \/ b = <<".", ".">> THEN <<>> ELSE sliceFrom(b, d)

\* path.dirname(p)
dirname(p) ==
    LET q == StripSlashes(p)
        i == lastIndexOf(q, "/")
    IN  IF i = -1 THEN <<".">>
        ELSE IF i = 0 THEN <<"/">>
        ELSE StripSlashes(slice(q, 0, i))

\* path.join(dir, name) for a normalized dir and a name without slashes.
join(dir, name) ==
    IF dir = <<".">> THEN name
    ELSE IF dir = <<"/">> THEN <<"/">> \o name
    ELSE dir \o <<"/">> \o name

FFMETADATA == <<".", "f", "f", "m", "e", "t", "a", "d", "a", "t", "a">>

\* basename = path.basename(src).slice(0, -ext.length)
tempStem(src, ext) == slice(basename(src), 0, 0 - Len(ext))

getTempPath(src) ==
    LET ext     == extname(src)
        stem    == tempStem(src, ext)
        newName == stem \o FFMETADATA \o ext
        dir     == dirname(src)
        newPath == join(dir, newName)
    IN  newPath

-----------------------------------------------------------------------------
(* The ini encoder and decoder hooks *)

escapeini(data) == data

unescapeini(data) == data

-----------------------------------------------------------------------------
(* Argument builders *)

DashI       == <<"-", "i">>
DashMap     == <<"-", "m", "a", "p">>
DashY       == <<"-", "y">>
DashF       == <<"-", "f">>
DashCodec   == <<"-", "c", "o", "d", "e", "c">>
Copy        == <<"c", "o", "p", "y">>
DashId3v1   == <<"-", "w", "r", "i", "t", "e", "_", "i", "d", "3", "v", "1">>
DashId3v2   == <<"-", "i", "d", "3", "v", "2", "_", "v", "e", "r", "s", "i", "o", "n">>
DashMeta    == <<"-", "m", "e", "t", "a", "d", "a", "t", "a">>
Ffmetadata  == <<"f", "f", "m", "e", "t", "a", "d", "a", "t", "a">>
Pipe1       == <<"p", "i", "p", "e", ":", "1">>
Colon0      == <<":", "0">>

getReadArgs(src, options) ==
    IF options.coverPath # <<>>
    THEN <<DashI, src, options.coverPath[1]>>
    ELSE <<DashI, src, DashF, Ffmetadata, Pipe1>>

getAttachments(options) ==
    IF options.isArray THEN options.elems ELSE options.attachments

\* var inputIndex = inputs.length / 2
\* (inputIndexMutant: the index taken as inputs.length, without the division)
inputIndexMutant(inputs) == Len(inputs)
inputIndex(inputs) == Len(inputs) \div 2

\* The forEach over the attachments: each pushes onto inputs and onto maps.
RECURSIVE attachEach(_, _, _)
attachEach(els, inputs, maps) ==
    IF els = <<>> THEN [inputs |-> inputs, maps |-> maps]
    ELSE attachEach(Tail(els),
                    inputs \o <<DashI, Head(els)>>,
                    maps \o <<DashMap, NumToStr(inputIndex(inputs)) \o Colon0>>)

\* args = args.concat(inputs, maps, ["-codec", "copy"])
\* (concatArgsMutant: the mappings concatenated before the inputs)
concatArgsMutant(args, inputs, maps) == args \o maps \o inputs \o <<DashCodec, Copy>>
concatArgs(args, inputs, maps) == args \o inputs \o maps \o <<DashCodec, Copy>>

\* Object.keys(data).forEach: one -metadata directive per key, in key order.
\* A record is a sequence of <<name, value>> pairs with distinct names.
RECURSIVE metadataArgs(_)
metadataArgs(data) ==
    IF data = <<>> THEN <<>>
    ELSE <<DashMeta, escapeini(Head(data)[1]) \o <<"=">> \o escapeini(Head(data)[2])>>
         \o metadataArgs(Tail(data))

getWriteArgs(src, dst, data, options) ==
    LET att  == attachEach(getAttachments(options), <<DashI, src>>, <<DashMap, <<"0">> \o Colon0>>)
        a1   == concatArgs(<<DashY>>, att.inputs, att.maps)
        a2   == IF options.id3v1 THEN a1 \o <<DashId3v1, <<"1">>>> ELSE a1
        a3   == IF options.id3v23 THEN a2 \o <<DashId3v2, <<"3">>>> ELSE a2
        a4   == a3 \o metadataArgs(data)
    IN  a4 \o <<dst>>

-----------------------------------------------------------------------------
(* Metadata records and the values handed to the caller *)

Undefined == <<"u", "n", "d", "e", "f", "i", "n", "e", "d">>

Album  == <<"a", "l", "b", "u", "m">>
Artist == <<"a", "r", "t", "i", "s", "t">>
Date   == <<"d", "a", "t", "e">>
Disk   == <<"d", "i", "s", "k">>
Label  == <<"l", "a", "b", "e", "l">>
Title  == <<"t", "i", "t", "l", "e">>
Track  == <<"t", "r", "a", "c", "k">>

\* The fields of MetadataInterface.
KnownFields == {Album, Artist, Date, Disk, Label, Title, Track}

\* Property lookup and assignment on a record (a sequence of <<name, value>>):
\* an assignment to an existing name keeps its place, a new name goes last.
hasProp(rec, name) == \E i \in 1..Len(rec) : rec[i][1] = name
getProp(rec, name) == rec[CHOOSE i \in 1..Len(rec) : rec[i][1] = name][2]
setProp(rec, name, value) ==
    IF hasProp(rec, name)
    THEN [i \in 1..Len(rec) |-> IF rec[i][1] = name THEN <<name, value>> ELSE rec[i]]
    ELSE Append(rec, <<name, value>>)

\* const rt = { album: x.album || null, ... }: null is <<>>, a value v is <<v>>.
\* An absent property and the empty string are both falsy.
orNull(rec, name) ==
    IF hasProp(rec, name) /\ getProp(rec, name) # <<>> THEN <<getProp(rec, name)>> ELSE <<>>
project(rec) == [f \in KnownFields |-> orNull(rec, f)]

\* The through() stream has none of the seven properties.
streamRt == project(<<>>)

\* What a call returns: the argument vector (dry run) or the record rt.
ArgsRet(args) == [isArgs |-> TRUE, args |-> args, rt |-> streamRt]
RtRet(rt)     == [isArgs |-> FALSE, args |-> <<>>, rt |-> rt]

\* Error values.
SpawnError   == [name |-> "spawn", message |-> <<"E", "N", "O", "E", "N", "T">>]
RenameError  == [name |-> "rename", message |-> <<"E", "X", "D", "E", "V">>]
\* new Error(error.getBody().toString())
\* (ExitErrorMutant: the error made without the collected text)
ExitErrorMutant(body) == [name |-> "exit", message |-> <<>>]
ExitError(body) == [name |-> "exit", message |-> body]

-----------------------------------------------------------------------------
(* The ini decoder: combine(split(), filter(Boolean), filter(isNotComment),  *)
(* through(parseLine))                                                       *)

isNotComment(data) == slice(data, 0, 1) # <<";">>

\* parseini(): stream.data = {}, key undefined, split's remainder empty.
parseini == [data |-> <<>>, key |-> <<>>, soFar |-> <<>>]

\* The property name an undefined key indexes, and the value an absent
\* property contributes to +=.
keyName(o) == IF o.key = <<>> THEN Undefined ELSE o.key[1]
current(o) == IF hasProp(o.data, keyName(o)) THEN getProp(o.data, keyName(o)) ELSE Undefined

\* var index = data.indexOf("=")
\* (indexMutant: the last "=" of the line taken instead of the first)
indexMutant(data) == lastIndexOf(data, "=")
index(data) == indexOf(data, "=")

parseLine(o, line) ==
    LET data == unescapeini(line)
        i    == index(data)
    IN  IF i = -1
        THEN [o EXCEPT !.data = setProp(o.data, keyName(o),
                                  replace(current(o) \o sliceFrom(data, i + 1), "\\", <<"\n">>))]
        ELSE [o EXCEPT !.key = <<slice(data, 0, i)>>,
                       !.data = setProp(o.data, slice(data, 0, i), sliceFrom(data, i + 1))]

\* One line through filter(Boolean), filter(isNotComment) and parseLine.
pipeLine(o, line) ==
    IF line # <<>> /\ isNotComment(line) THEN parseLine(o, line) ELSE o

RECURSIVE pipeLines(_, _)
pipeLines(o, lines) ==
    IF lines = <<>> THEN o ELSE pipeLines(pipeLine(o, Head(lines)), Tail(lines))

\* String.prototype.split(/\r?\n/)
RECURSIVE splitPieces(_)
splitPieces(s) ==
    LET i == indexOf(s, "\n")
    IN  IF i = -1 THEN <<s>>
        ELSE LET piece == slice(s, 0, i)
                 line  == IF piece # <<>> /\ piece[Len(piece)] = "\r"
                          THEN slice(piece, 0, -1) ELSE piece
             IN  <<line>> \o splitPieces(sliceFrom(s, i + 1))

\* split()'s write: the complete lines go down the pipeline, the rest is kept.
decoderWrite(o, chunk) ==
    LET pieces == splitPieces(o.soFar \o chunk)
        lines  == SubSeq(pieces, 1, Len(pieces) - 1)
    IN  [pipeLines(o, lines) EXCEPT !.soFar = pieces[Len(pieces)]]

\* split()'s end: the remainder is the last line.
decoderEnd(o) == [pipeLine(o, o.soFar) EXCEPT !.soFar = <<>>]

-----------------------------------------------------------------------------
(* The filesystem and the external tool (ffmpeg), at their interface *)

Absent == [present |-> FALSE, base |-> <<>>, meta |-> <<>>, complete |-> FALSE]
File(base, meta) == [present |-> TRUE, base |-> base, meta |-> meta, complete |-> TRUE]
Partial(base) == [present |-> TRUE, base |-> base, meta |-> <<>>, complete |-> FALSE]

\* The tool's reading of its argument vector: the inputs follow -i, the
\* -metadata pairs split at their first "=", the output is the last token.
ToolInputs(args) == {args[i + 1] : i \in {j \in 1..(Len(args) - 1) : args[j] = DashI}}
ToolOutput(args) == args[Len(args)]
ToolPrimary(args) ==
    args[(CHOOSE i \in 1..Len(args) : args[i] = DashI /\ \A j \in 1..(i-1) : args[j] # DashI) + 1]

RECURSIVE ToolPairs(_, _)
ToolPairs(args, i) ==
    IF i >= Len(args) THEN <<>>
    ELSE IF args[i] = DashMeta
         THEN LET tok == args[i + 1]
                  eq  == indexOf(tok, "=")
              IN  <<<<slice(tok, 0, eq), sliceFrom(tok, eq + 1)>>>> \o ToolPairs(args, i + 2)
         ELSE IF args[i] = DashY THEN ToolPairs(args, i + 1)
         ELSE ToolPairs(args, i + 2)

RECURSIVE ToolMerge(_, _)
ToolMerge(meta, pairs) ==
    IF pairs = <<>> THEN meta
    ELSE ToolMerge(setProp(meta, Head(pairs)[1], Head(pairs)[2]), Tail(pairs))

\* The export format's escaping: = ; # \ and newline get a backslash.
RECURSIVE ToolEscape(_)
ToolEscape(s) ==
    IF s = <<>> THEN <<>>
    ELSE (IF Head(s) \in {"=", ";", "#", "\\", "\n"} THEN <<"\\", Head(s)>> ELSE <<Head(s)>>)
         \o ToolEscape(Tail(s))

RECURSIVE ToolLines(_)
ToolLines(meta) ==
    IF meta = <<>> THEN <<>>
    ELSE ToolEscape(Head(meta)[1]) \o <<"=">> \o ToolEscape(Head(meta)[2]) \o <<"\n">>
         \o ToolLines(Tail(meta))

ToolExport(meta) ==
    <<";", "F", "F", "M", "E", "T", "A", "D", "A", "T", "A", "1", "\n">> \o ToolLines(meta)

-----------------------------------------------------------------------------
(* The inputs the calls are made with *)

Options(att, v1, v23, dry, cover) ==
    [isArray |-> FALSE, elems |-> <<>>, attachments |-> att,
     id3v1 |-> v1, id3v23 |-> v23, dryRun |-> dry, coverPath |-> cover]

\* An options argument that is itself the array of attachments.
ArrayOptions(els) ==
    [isArray |-> TRUE, elems |-> els, attachments |-> <<>>,
     id3v1 |-> FALSE, id3v23 |-> FALSE, dryRun |-> FALSE, coverPath |-> <<>>]

SongMp3   == <<"a", ".", "m">>
CoverJpg  == <<"c", ".", "j">>
Attach1   == <<"p">>
Attach2   == <<"q">>

Sources == {SongMp3, FFMETADATA}

Record1 == <<<<Title, <<"T">>>>>>
Record2 == <<<<Title, <<"T">>>>, <<Artist, <<"x", "\n", "y">>>>>>
Metadatas == {<<>>, Record1, Record2}

WriteOptions ==
    {Options(<<>>, FALSE, FALSE, dry, <<>>) : dry \in BOOLEAN}
    \cup {Options(<<Attach1>>, TRUE, TRUE, FALSE, <<>>), ArrayOptions(<<Attach2, Attach1>>)}

ReadOptions ==
    {Options(<<>>, FALSE, FALSE, dry, cover) : dry \in BOOLEAN, cover \in {<<>>, <<CoverJpg>>}}

StderrTexts == {<<>>, <<"E", "r">>}

\* The sources of the writes made at the same time.
ConcurrentSources == {SongMp3, <<"e", ".", "m">>, <<"b">>, <<"c">>}

AllSources == Sources \cup ConcurrentSources

Paths == AllSources \cup {getTempPath(s) : s \in AllSources} \cup {CoverJpg}

-----------------------------------------------------------------------------
(* The stream's listeners *)

\* stream.on("end", callback); stream.on("error", er => callback(er, undefined))
readListeners == {"end", "error"}

\* stream.on("metadata", data => callback(undefined, rt)); stream.on("error", ...)
writeListeners == {"metadata", "error"}

listeners(c) ==
    IF ~c.hasCallback THEN {}
    ELSE IF c.kind = "read" THEN readListeners ELSE writeListeners

Event(name, err, data) == [name |-> name, err |-> err, data |-> data]

\* What the listener of an event passes to the callback.
invocation(c, ev) ==
    IF ev.name = "error" THEN [err |-> ev.err, data |-> <<>>]
    ELSE IF ev.name = "metadata" THEN [err |-> <<>>, data |-> <<project(ev.data[1])>>]
    ELSE [err |-> <<>>, data |-> <<>>]

\* An "error" event without a listener is thrown by the emitter.
throws(c, ev) == ev.name = "error" /\ "error" \notin listeners(c)

\* stream.emit(ev): the listeners run; the call goes to pc `next`, or crashes.
emit(c, ev, next) ==
    /\ events' = Append(events, ev)
    /\ cbCalls' = IF ev.name \in listeners(c) THEN Append(cbCalls, invocation(c, ev)) ELSE cbCalls
    /\ call' = [c EXCEPT !.pc = IF throws(c, ev) THEN "crashed" ELSE next]

-----------------------------------------------------------------------------
(* Initial state *)

NoCall ==
    [kind |-> "none", src |-> <<>>, data |-> <<>>, options |-> Options(<<>>, FALSE, FALSE, FALSE, <<>>),
     hasCallback |-> FALSE, dst |-> <<>>, args |-> <<>>, pc |-> "idle",
     ret |-> RtRet(streamRt), err |-> <<>>]

NoProc ==
    [state |-> "none", args |-> <<>>, stdout |-> <<>>, stdoutEnded |-> FALSE,
     stderr |-> <<>>, stderrEnded |-> FALSE, code |-> 0, written |-> <<>>, errText |-> <<>>]

\* The write calls that may be in flight together, and one not yet made.
Writers == {1, 2}

NoWriter ==
    [src |-> <<>>, dst |-> <<>>, args |-> <<>>, pc |-> "idle", state |-> "none",
     code |-> 0, err |-> <<>>, events |-> <<>>, touched |-> {}]

Init ==
    /\ fs = [p \in Paths |-> IF p \in AllSources THEN File(p, <<>>) ELSE Absent]
    /\ writers = [i \in Writers |-> NoWriter]
    /\ call = NoCall
    /\ proc = NoProc
    /\ output = parseini
    /\ error = <<>>
    /\ events = <<>>
    /\ cbCalls = <<>>
    /\ fsOps = <<>>
    /\ fs0 = fs
    /\ ncalls = 0
    /\ lastWrite = <<>>

-----------------------------------------------------------------------------
(* The calls *)

\* A call is made when the one before it has come to rest.
CanStart == call.pc \in {"idle", "returned", "settled"} /\ ncalls < MaxCalls

\* if (options.dryRun) return args
\* (dryRunMutant: the early return left out)
dryRunMutant(options) == FALSE
dryRun(options) == options.dryRun

\* What a call sets up whether it spawns or not.
Begin ==
    /\ output' = parseini
    /\ error' = <<>>
    /\ events' = <<>>
    /\ cbCalls' = <<>>
    /\ fsOps' = <<>>
    /\ fs0' = fs
    /\ ncalls' = ncalls + 1
    /\ UNCHANGED <<fs, lastWrite, writers>>

\* ffmpeg(args): the child process, before any of its events.
spawn(args) == [NoProc EXCEPT !.state = "spawned", !.args = args]

read(src, options, callback) ==
    /\ CanStart
    /\ LET args == getReadArgs(src, options)
           c    == [NoCall EXCEPT !.kind = "read", !.src = src, !.options = options,
                                  !.hasCallback = callback, !.args = args]
       IN  IF dryRun(options)
           THEN /\ call' = [c EXCEPT !.pc = "returned", !.ret = ArgsRet(args)]
                /\ proc' = NoProc
           ELSE /\ call' = [c EXCEPT !.pc = "waiting", !.ret = RtRet(streamRt)]
                /\ proc' = spawn(args)
    /\ Begin

write(src, data, options, callback) ==
    /\ CanStart
    /\ LET dst  == getTempPath(src)
           args == getWriteArgs(src, dst, data, options)
           c    == [NoCall EXCEPT !.kind = "write", !.src = src, !.data = data,
                                  !.options = options, !.hasCallback = callback,
                                  !.dst = dst, !.args = args]
       IN  IF dryRun(options)
           THEN /\ call' = [c EXCEPT !.pc = "returned", !.ret = ArgsRet(args)]
                /\ proc' = NoProc
           ELSE /\ call' = [c EXCEPT !.pc = "waiting", !.ret = RtRet(streamRt)]
                /\ proc' = spawn(args)
    /\ Begin

-----------------------------------------------------------------------------
(* The child process: the tool's run and the events it raises *)

\* A spawn failure: the ChildProcess emits "error"; its "close" follows with a
\* negative code.  proc.on("error", stream.emit.bind(stream, "error"))
ProcError ==
    /\ call.pc = "waiting"
    /\ proc.state = "spawned"
    /\ proc' = [proc EXCEPT !.state = "failed", !.code = -2]
    /\ emit(call, Event("error", <<SpawnError>>, <<>>), "waiting")
    /\ UNCHANGED <<fs, output, error, fsOps, fs0, ncalls, lastWrite, writers>>

\* The tool run with read arguments: it exports the input's metadata on its
\* standard output (or extracts the cover to the path given), or fails, with
\* no output or with an export cut short inside its last line.
ToolRead ==
    /\ call.pc = "waiting"
    /\ proc.state = "spawned"
    /\ proc.args[1] = DashI
    /\ \E ok \in BOOLEAN, cut \in BOOLEAN, text \in StderrTexts :
         LET in     == fs[ToolPrimary(proc.args)]
             cover  == Len(proc.args) = 3
             export == ToolExport(in.meta)
             out    == IF cover THEN <<>>
                       ELSE IF ok THEN export
                       ELSE IF cut THEN SubSeq(export, 1, Len(export) - 1)
                       ELSE <<>>
         IN  /\ ok => in.present /\ in.complete /\ ~cut
             /\ cut => in.present /\ in.complete /\ ~cover
             /\ fs' = IF ok /\ cover
                      THEN [fs EXCEPT ![ToolOutput(proc.args)] = File(in.base, <<>>)]
                      ELSE fs
             /\ proc' = [proc EXCEPT !.state = "running", !.code = IF ok THEN 0 ELSE 1,
                                     !.stdout = out, !.written = out,
                                     !.stderr = text, !.errText = text]
    /\ UNCHANGED <<call, output, error, events, cbCalls, fsOps, fs0, ncalls, lastWrite, writers>>

\* The tool run with write arguments: it writes the output file (the input's
\* streams with the -metadata pairs stored), whole or in part, or fails before
\* writing.  It refuses an output that is one of its inputs.
ToolWrite ==
    /\ call.pc = "waiting"
    /\ proc.state = "spawned"
    /\ proc.args[1] = DashY
    /\ \E outcome \in {"ok", "partial", "none"}, text \in StderrTexts :
         LET in  == fs[ToolPrimary(proc.args)]
             dst == ToolOutput(proc.args)
         IN  /\ outcome = "ok" => in.present /\ in.complete
             /\ outcome # "none" => dst \notin ToolInputs(proc.args)
             /\ fs' = IF outcome = "ok"
                      THEN [fs EXCEPT ![dst] = File(in.base, ToolMerge(in.meta, ToolPairs(proc.args, 1)))]
                      ELSE IF outcome = "partial"
                      THEN [fs EXCEPT ![dst] = Partial(in.base)]
                      ELSE fs
             /\ proc' = [proc EXCEPT !.state = "running",
                                     !.code = IF outcome = "ok" THEN 0 ELSE 1,
                                     !.stderr = text, !.errText = text]
    /\ UNCHANGED <<call, output, error, events, cbCalls, fsOps, fs0, ncalls, lastWrite, writers>>

\* A chunk of standard output arrives.  read: proc.stdout.pipe(output);
\* write: proc.stdout.on("data", stream.emit.bind(stream, "data"))
ProcStdoutData ==
    /\ call.pc = "waiting"
    /\ proc.state = "running"
    /\ proc.stdout # <<>>
    /\ \E n \in 1..Len(proc.stdout) :
         LET chunk == SubSeq(proc.stdout, 1, n)
         IN  /\ proc' = [proc EXCEPT !.stdout = SubSeq(proc.stdout, n + 1, Len(proc.stdout))]
             /\ IF call.kind = "read"
                THEN /\ output' = decoderWrite(output, chunk)
                     /\ UNCHANGED <<call, events, cbCalls>>
                ELSE /\ emit(call, Event("data", <<>>, <<>>), "waiting")
                     /\ UNCHANGED output
    /\ UNCHANGED <<fs, error, fsOps, fs0, ncalls, lastWrite, writers>>

\* Standard output ends: the pipe ends the decoder, which flushes its last line.
ProcStdoutEnd ==
    /\ call.pc = "waiting"
    /\ proc.state = "running"
    /\ proc.stdout = <<>>
    /\ ~proc.stdoutEnded
    /\ proc' = [proc EXCEPT !.stdoutEnded = TRUE]
    /\ output' = IF call.kind = "read" THEN decoderEnd(output) ELSE output
    /\ UNCHANGED <<fs, call, error, events, cbCalls, fsOps, fs0, ncalls, lastWrite, writers>>

\* proc.stderr.pipe(error)
ProcStderrData ==
    /\ call.pc = "waiting"
    /\ proc.state = "running"
    /\ proc.stderr # <<>>
    /\ \E n \in 1..Len(proc.stderr) :
         /\ proc' = [proc EXCEPT !.stderr = SubSeq(proc.stderr, n + 1, Len(proc.stderr))]
         /\ error' = error \o SubSeq(proc.stderr, 1, n)
    /\ UNCHANGED <<fs, call, output, events, cbCalls, fsOps, fs0, ncalls, lastWrite, writers>>

ProcStderrEnd ==
    /\ call.pc = "waiting"
    /\ proc.state = "running"
    /\ proc.stderr = <<>>
    /\ ~proc.stderrEnded
    /\ proc' = [proc EXCEPT !.stderrEnded = TRUE]
    /\ UNCHANGED <<fs, call, output, error, events, cbCalls, fsOps, fs0, ncalls, lastWrite, writers>>

\* The ChildProcess raises "exit" when the process has ended, and "close" once
\* its stdio streams have closed as well.  The calls listen for "close"
\* (exitRaised: what listening for "exit" would wait for).
exitRaised(p) == p.state \in {"running", "failed"}
closeRaised(p) ==
    \/ p.state = "running" /\ p.stdoutEnded /\ p.stderrEnded
    \/ p.state = "failed"

\* if (code === 0)
\* (codeIsZeroMutant: every code but that of a failed run taken as success)
codeIsZeroMutant(code) == code <= 0
codeIsZero(code) == code = 0

\* proc.on("close", function(code) { ... })
ProcClose ==
    /\ call.pc = "waiting"
    /\ closeRaised(proc)
    /\ proc' = [proc EXCEPT !.state = "closed"]
    /\ IF call.kind = "read"
       THEN IF codeIsZero(proc.code)
            THEN emit(call, Event("metadata", <<>>, <<output.data>>), "settled")
            ELSE emit(call, Event("error", <<ExitError(error)>>, <<>>), "settled")
       ELSE IF codeIsZero(proc.code)
            THEN \* finish()
                 /\ call' = [call EXCEPT !.pc = "renaming"]
                 /\ UNCHANGED <<events, cbCalls>>
            ELSE \* handleError(new Error(error.getBody().toString()))
                 /\ call' = [call EXCEPT !.pc = "unlinking", !.err = <<ExitError(error)>>]
                 /\ UNCHANGED <<events, cbCalls>>
    /\ UNCHANGED <<fs, output, error, fsOps, fs0, ncalls, lastWrite, writers>>

-----------------------------------------------------------------------------
(* The write call's filesystem steps *)

\* if (err) in the rename callback
\* (renameFailedMutant: the rename's error not looked at)
renameFailedMutant(err) == FALSE
renameFailed(err) == err # <<>>

\* finish(): fs.rename(dst, src, function(err) { ... })
FsRename ==
    /\ call.pc = "renaming"
    /\ \E ok \in BOOLEAN :
         LET err == IF ok THEN <<>> ELSE <<RenameError>>
         IN  /\ ok => fs[call.dst].present
             /\ fsOps' = Append(fsOps, [op |-> "rename", ok |-> ok])
             /\ fs' = IF ok /\ call.dst # call.src
                      THEN [fs EXCEPT ![call.src] = fs[call.dst], ![call.dst] = Absent]
                      ELSE fs
             /\ lastWrite' = IF ok
                             THEN <<[src |-> call.src, data |-> call.data,
                                     prior |-> fs0[call.src].meta]>>
                             ELSE lastWrite
             /\ IF renameFailed(err)
                THEN \* handleError(err)
                     /\ call' = [call EXCEPT !.pc = "unlinking", !.err = err]
                     /\ UNCHANGED <<events, cbCalls>>
                ELSE emit(call, Event("end", <<>>, <<>>), "settled")
    /\ UNCHANGED <<proc, output, error, fs0, ncalls, writers>>

\* handleError(err): fs.unlink(dst, function() { stream.emit("error", err) })
FsUnlink ==
    /\ call.pc = "unlinking"
    /\ \E ok \in BOOLEAN :
         /\ ok => fs[call.dst].present
         /\ fsOps' = Append(fsOps, [op |-> "unlink", ok |-> ok])
         /\ fs' = IF ok THEN [fs EXCEPT ![call.dst] = Absent] ELSE fs
    /\ emit(call, Event("error", call.err, <<>>), "settled")
    /\ UNCHANGED <<proc, output, error, fs0, ncalls, lastWrite, writers>>

-----------------------------------------------------------------------------
(* Specifications *)

Next ==
    \/ \E src \in Sources, options \in ReadOptions, callback \in BOOLEAN :
         read(src, options, callback)
    \/ \E src \in Sources, data \in Metadatas, options \in WriteOptions, callback \in BOOLEAN :
         write(src, data, options, callback)
    \/ ProcError
    \/ ToolRead
    \/ ToolWrite
    \/ ProcStdoutData
    \/ ProcStdoutEnd
    \/ ProcStderrData
    \/ ProcStderrEnd
    \/ ProcClose
    \/ FsRename
    \/ FsUnlink

Spec == Init /\ [][Next]_vars

\* The argument builders alone: dry-run calls, which return what the builders
\* produce, over a wider range of inputs.
BuilderSources == {SongMp3, <<"d", "/", "a", ".", "m">>, <<"b">>, FFMETADATA}

BuilderMetadatas ==
    Metadatas \cup {<<<<Artist, <<"x">>>>, <<Title, <<"T">>>>>>,
                    <<<<<<"k", "=">>, <<"v">>>>>>,
                    <<<<<<";", "k">>, <<"=", "v">>>>>>}

AttachmentLists == UNION {[1..n -> {Attach1, Attach2}] : n \in 0..MaxAttachments}

BuilderOptions ==
    {Options(att, v1, v23, TRUE, <<>>) : att \in AttachmentLists, v1 \in BOOLEAN, v23 \in BOOLEAN}

\* One call from the initial state: the builders are pure.
BuilderNext ==
    /\ ncalls = 0
    /\ \/ \E src \in BuilderSources, options \in {o \in ReadOptions : o.dryRun} :
            read(src, options, TRUE)
       \/ \E src \in BuilderSources, data \in BuilderMetadatas, options \in BuilderOptions :
            write(src, data, options, TRUE)

BuilderSpec == Init /\ [][BuilderNext]_vars

\* The decoder alone: one read whose process writes any text of up to MaxLines
\* lines to its standard output and exits with code 0.
DecoderLines ==
    {<<"t", "=", "a">>,                   \* a key line
     <<"t", "=", "b", "=", "c">>,         \* a key line with a second "="
     <<"u", "=", "a", "\\">>,             \* a key line whose value goes on
     <<"u", "=", "\\", "=", "\\">>,       \* the same, the value beginning with an escaped "="
     <<"y">>,                             \* a line without "="
     <<>>,                                \* a blank line
     <<";", "t", "=", "z">>}              \* a comment

RECURSIVE joinLines(_)
joinLines(lines) ==
    IF lines = <<>> THEN <<>> ELSE Head(lines) \o <<"\n">> \o joinLines(Tail(lines))

DecoderTexts == {joinLines(ls) : ls \in UNION {[1..n -> DecoderLines] : n \in 0..MaxLines}}

ToolReadText ==
    /\ call.pc = "waiting"
    /\ proc.state = "spawned"
    /\ \E text \in DecoderTexts :
         proc' = [proc EXCEPT !.state = "running", !.code = 0, !.stdout = text, !.written = text]
    /\ UNCHANGED <<fs, call, output, error, events, cbCalls, fsOps, fs0, ncalls, lastWrite, writers>>

DecoderNext ==
    \/ /\ ncalls = 0
       /\ read(SongMp3, Options(<<>>, FALSE, FALSE, FALSE, <<>>), TRUE)
    \/ ToolReadText
    \/ ProcStdoutData
    \/ ProcStdoutEnd
    \/ ProcStderrEnd
    \/ ProcClose

DecoderSpec == Init /\ [][DecoderNext]_vars

\* Write calls in flight at the same time: each has its own process, stream
\* and locals; the filesystem is what they share.  The calls are made with a
\* callback, an empty record and no options.
Others == <<call, proc, output, error, events, cbCalls, fsOps, fs0, ncalls, lastWrite>>

\* write(src, {}, callback), up to the return
ConcurrentWrite(i, src) ==
    /\ writers[i].pc = "idle"
    /\ LET dst  == getTempPath(src)
           args == getWriteArgs(src, dst, <<>>, Options(<<>>, FALSE, FALSE, FALSE, <<>>))
       IN  writers' = [writers EXCEPT ![i] =
                         [NoWriter EXCEPT !.src = src, !.dst = dst, !.args = args,
                                          !.pc = "waiting", !.state = "spawned"]]
    /\ UNCHANGED <<fs, Others>>

\* proc.on("error", stream.emit.bind(stream, "error"))
ConcurrentProcError(i) ==
    /\ writers[i].pc = "waiting"
    /\ writers[i].state = "spawned"
    /\ writers' = [writers EXCEPT ![i].state = "failed", ![i].code = -2,
                                  ![i].events = Append(@, <<SpawnError>>)]
    /\ UNCHANGED <<fs, Others>>

\* The tool's run for one of the calls, as in ToolWrite.
ConcurrentToolWrite(i) ==
    /\ writers[i].pc = "waiting"
    /\ writers[i].state = "spawned"
    /\ \E outcome \in {"ok", "partial", "none"} :
         LET w   == writers[i]
             in  == fs[ToolPrimary(w.args)]
             dst == ToolOutput(w.args)
         IN  /\ outcome = "ok" => in.present /\ in.complete
             /\ outcome # "none" => dst \notin ToolInputs(w.args)
             /\ fs' = IF outcome = "ok"
                      THEN [fs EXCEPT ![dst] = File(in.base, ToolMerge(in.meta, ToolPairs(w.args, 1)))]
                      ELSE IF outcome = "partial"
                      THEN [fs EXCEPT ![dst] = Partial(in.base)]
                      ELSE fs
             /\ writers' = [writers EXCEPT ![i].state = "running",
                                           ![i].code = IF outcome = "ok" THEN 0 ELSE 1,
                                           ![i].touched = IF outcome = "none" THEN @ ELSE @ \cup {dst}]
    /\ UNCHANGED Others

\* proc.on("close", function(code) { ... })
ConcurrentProcClose(i) ==
    /\ writers[i].pc = "waiting"
    /\ writers[i].state \in {"running", "failed"}
    /\ writers' = [writers EXCEPT ![i].state = "closed",
                                  ![i].pc = IF codeIsZero(writers[i].code)
                                            THEN "renaming" ELSE "unlinking",
                                  ![i].err = IF codeIsZero(writers[i].code)
                                             THEN @ ELSE <<ExitError(<<>>)>>]
    /\ UNCHANGED <<fs, Others>>

\* finish(): fs.rename(dst, src, function(err) { ... })
ConcurrentFsRename(i) ==
    /\ writers[i].pc = "renaming"
    /\ \E ok \in BOOLEAN :
         LET w   == writers[i]
             err == IF ok THEN <<>> ELSE <<RenameError>>
         IN  /\ ok => fs[w.dst].present
             /\ fs' = IF ok /\ w.dst # w.src
                      THEN [fs EXCEPT ![w.src] = fs[w.dst], ![w.dst] = Absent]
                      ELSE fs
             /\ writers' = [writers EXCEPT
                              ![i].touched = IF ok THEN @ \cup {w.src, w.dst} ELSE @,
                              ![i].pc = IF renameFailed(err) THEN "unlinking" ELSE "settled",
                              ![i].err = IF renameFailed(err) THEN err ELSE @,
                              ![i].events = IF renameFailed(err) THEN @ ELSE Append(@, <<>>)]
    /\ UNCHANGED Others

\* handleError(err): fs.unlink(dst, function() { stream.emit("error", err) })
ConcurrentFsUnlink(i) ==
    /\ writers[i].pc = "unlinking"
    /\ \E ok \in BOOLEAN :
         LET w == writers[i]
         IN  /\ ok => fs[w.dst].present
             /\ fs' = IF ok THEN [fs EXCEPT ![w.dst] = Absent] ELSE fs
             /\ writers' = [writers EXCEPT
                              ![i].touched = IF ok THEN @ \cup {w.dst} ELSE @,
                              ![i].pc = "settled",
                              ![i].events = Append(@, w.err)]
    /\ UNCHANGED Others

ConcurrentNext ==
    \E i \in Writers :
       \/ \E src \in ConcurrentSources : ConcurrentWrite(i, src)
       \/ ConcurrentProcError(i)
       \/ ConcurrentToolWrite(i)
       \/ ConcurrentProcClose(i)
       \/ ConcurrentFsRename(i)
       \/ ConcurrentFsUnlink(i)

ConcurrentSpec == Init /\ [][ConcurrentNext]_vars

-----------------------------------------------------------------------------
(* Properties *)

Running(kind) == call.kind = kind /\ ~call.options.dryRun
Ended == call.pc \in {"settled", "crashed"}
Attempted(op) == \E i \in DOMAIN fsOps : fsOps[i].op = op
Succeeded(op) == \E i \in DOMAIN fsOps : fsOps[i].op = op /\ fsOps[i].ok
Surfaced == \E i \in DOMAIN events : events[i].name = "error"

\* C1: once a write call whose process exited with a nonzero code has delivered
\* its error to the callback, the source file holds the bytes it held before the call and no
\* file is left at the temp path.  Stated for the calls in which no removal
\* failed (a failed removal is swallowed by design and may leave the temp file),
\* so that what refutes it is the code's own doing.
C1_Atomicity ==
    (/\ Running("write")
     /\ call.hasCallback
     /\ call.pc = "settled"
     /\ proc.state = "closed"
     /\ proc.code > 0
     /\ \A i \in DOMAIN fsOps : fsOps[i].op = "unlink" => fsOps[i].ok)
    => /\ fs[call.src] = fs0[call.src]
       /\ ~fs[call.dst].present

\* The argument vector the call at hand passes to the tool when it is not a
\* dry run.
PassedArgs ==
    LET options == [call.options EXCEPT !.dryRun = FALSE]
    IN  IF call.kind = "read" THEN getReadArgs(call.src, options)
        ELSE getWriteArgs(call.src, getTempPath(call.src), call.data, options)

\* C2: a read or write call with dryRun set spawns no process, creates, removes
\* and renames no file, and returns the argument vector the same call without
\* dryRun passes to the process.
C2_DryRunPurity ==
    /\ (call.kind # "none" /\ call.options.dryRun)
       => /\ call.pc = "returned"
          /\ proc.state = "none"
          /\ fs = fs0
          /\ fsOps = <<>>
          /\ call.ret = ArgsRet(PassedArgs)
    /\ (call.kind # "none" /\ ~call.options.dryRun)
       => proc.args = PassedArgs

\* A dry-run write of a record, made after an earlier write was committed.
C2_Witness ==
    /\ call.kind = "write"
    /\ call.options.dryRun
    /\ call.pc = "returned"
    /\ call.data = Record2
    /\ lastWrite # <<>>

\* C3: a read call with a callback whose process exited with code 0 has, once
\* it has come to rest, invoked the callback with no error and the record the
\* decoder accumulated.
C3_ReadDelivers ==
    (Running("read") /\ call.hasCallback /\ call.pc = "settled" /\ proc.code = 0)
    => \E i \in DOMAIN cbCalls :
         cbCalls[i].err = <<>> /\ cbCalls[i].data = <<output.data>>

\* C4: a write call with a callback whose process exited with code 0 and whose
\* rename succeeded has, once it has come to rest, invoked the callback with no
\* error and a record echoing the metadata written.
C4_WriteDelivers ==
    (/\ Running("write") /\ call.hasCallback /\ call.pc = "settled"
     /\ proc.code = 0 /\ Succeeded("rename"))
    => \E i \in DOMAIN cbCalls :
         cbCalls[i].err = <<>> /\ cbCalls[i].data = <<project(call.data)>>

Committed  == Succeeded("rename") /\ ~Attempted("unlink")
RolledBack == Attempted("unlink") /\ Surfaced

\* C5: a write call that has ended is in exactly one of the terminal states
\* Committed (renamed, no removal attempted) and RolledBack (removal attempted
\* and an error surfaced).
C5_TerminalStates ==
    (Running("write") /\ Ended) => (Committed # RolledBack)

\* C6: the callback is invoked at most once per call, and a call that failed
\* (spawn error, nonzero exit, rename failure) and has come to rest has invoked
\* it with exactly one error.
C6_SingleErrorSignal ==
    /\ Len(cbCalls) <= 1
    /\ (/\ call.kind # "none" /\ call.hasCallback /\ call.pc = "settled"
        /\ (proc.code # 0 \/ Attempted("unlink")))
       => Len(cbCalls) = 1 /\ cbCalls[1].err # <<>>

\* The record a decoder holds after all of `text` and the end of input.
decodeAll(text) == decoderEnd(decoderWrite(parseini, text)).data

\* C7: when the close handler of a read call decides from the exit code, every
\* line the process wrote to its standard output has been applied to the
\* decoder's map: the map, and the record a "metadata" event carries, are the
\* decoding of the whole output.
C7_DrainBeforeDecision ==
    (call.kind = "read" /\ proc.state = "closed")
    => /\ output.data = decodeAll(proc.written)
       /\ \A i \in DOMAIN events :
            events[i].name = "metadata" => events[i].data = <<decodeAll(proc.written)>>

\* A read that exited with code 0 after its output, two directives of which the
\* second spans two lines, was streamed.
C7_Witness ==
    /\ call.kind = "read"
    /\ proc.state = "closed"
    /\ proc.code = 0
    /\ Len(output.data) = 2
    /\ \E i \in DOMAIN events : events[i].name = "metadata"

\* Keys and values without escape-significant characters.
PlainString(s) ==
    /\ \A i \in 1..Len(s) : s[i] \notin {"=", "\n", "\\"}
    /\ slice(s, 0, 1) # <<";">>
PlainRecord(rec) == \A i \in 1..Len(rec) : PlainString(rec[i][1]) /\ PlainString(rec[i][2])

\* C8: after a committed write of a record without escape-significant characters
\* to a file that held no metadata, a read of that file (with a callback, exit
\* code 0) hands the caller a record equal to the one written.
C8_RoundTrip ==
    (/\ Running("read") /\ call.hasCallback /\ call.options.coverPath = <<>>
     /\ call.pc = "settled" /\ proc.code = 0
     /\ lastWrite # <<>>
     /\ lastWrite[1].src = call.src
     /\ lastWrite[1].prior = <<>>
     /\ lastWrite[1].data # <<>>
     /\ PlainRecord(lastWrite[1].data))
    => \/ \E i \in DOMAIN cbCalls :
            cbCalls[i].err = <<>> /\ cbCalls[i].data = <<lastWrite[1].data>>
       \/ call.ret.rt = project(lastWrite[1].data)

\* The arguments of a write as flag/value directives: what lies between the
\* overwrite flag and the output path, two by two.
Directives(a) == [j \in 1..((Len(a) - 2) \div 2) |-> <<a[2 * j], a[2 * j + 1]>>]
IsInput(d) == d[1] = DashI
IsMap(d) == d[1] = DashMap
StreamZeroOf(k) == <<Digits[k + 1], ":", "0">>

BuiltWrite == call.kind = "write" /\ call.pc = "returned"

\* C9: for N attachments the write arguments hold exactly N+1 input directives
\* and N+1 mapping directives; the source is the first input, mapped by 0:0, and
\* the k-th attachment is the k-th further input, mapped by k:0.
C9_AttachmentIndexing ==
    BuiltWrite =>
      LET att    == call.options.attachments
          N      == Len(att)
          inputs == SelectSeq(Directives(call.ret.args), IsInput)
          maps   == SelectSeq(Directives(call.ret.args), IsMap)
      IN  /\ Len(inputs) = N + 1
          /\ Len(maps) = N + 1
          /\ inputs[1][2] = call.src
          /\ maps[1][2] = StreamZeroOf(0)
          /\ \A k \in 1..N : inputs[k + 1][2] = att[k] /\ maps[k + 1][2] = StreamZeroOf(k)

\* A write built with two different attachments.
C9_Witness ==
    /\ BuiltWrite
    /\ call.options.attachments = <<Attach2, Attach1>>

\* What follows the inputs and the mappings, from position c on: the codec
\* directive, the id3 directives that are set, one -metadata directive per key
\* in key order, and the temp path last.
TailOrder(a, c) ==
    LET v1  == IF call.options.id3v1 THEN 2 ELSE 0
        v2  == IF call.options.id3v23 THEN 2 ELSE 0
        m   == c + 2 + v1 + v2
    IN  /\ Len(a) = m + 2 * Len(call.data)
        /\ a[c] = DashCodec /\ a[c + 1] = Copy
        /\ call.options.id3v1 => a[c + 2] = DashId3v1 /\ a[c + 3] = <<"1">>
        /\ call.options.id3v23 => a[c + 2 + v1] = DashId3v2 /\ a[c + 3 + v1] = <<"3">>
        /\ \A k \in 1..Len(call.data) :
             /\ a[m + 2 * (k - 1)] = DashMeta
             /\ slice(a[m + 2 * (k - 1) + 1], 0, Len(call.data[k][1]) + 1)
                  = call.data[k][1] \o <<"=">>
        /\ a[Len(a)] = getTempPath(call.src)

InputOf(k) == IF k = 0 THEN call.src ELSE call.options.attachments[k]

\* C10 as the spec states it: the overwrite flag, then each input followed by
\* its own mapping directive (the source, then the attachments in order), then
\* the codec, id3 and -metadata directives and the temp path.
C10_OrderAsSpecified ==
    BuiltWrite =>
      LET a == call.ret.args
          N == Len(call.options.attachments)
      IN  /\ a[1] = DashY
          /\ \A k \in 0..N :
               /\ a[2 + 4 * k] = DashI /\ a[3 + 4 * k] = InputOf(k)
               /\ a[4 + 4 * k] = DashMap /\ a[5 + 4 * k] = StreamZeroOf(k)
          /\ TailOrder(a, 2 + 4 * (N + 1))

\* C10, amended: the overwrite flag, then all the input directives (the source,
\* then the attachments in order), then all the mapping directives in the same
\* order, then the codec, id3 and -metadata directives and the temp path.
C10_OrderAsBuilt ==
    BuiltWrite =>
      LET a == call.ret.args
          N == Len(call.options.attachments)
      IN  /\ a[1] = DashY
          /\ \A k \in 0..N :
               /\ a[2 + 2 * k] = DashI /\ a[3 + 2 * k] = InputOf(k)
               /\ a[2 + 2 * (N + 1) + 2 * k] = DashMap
               /\ a[3 + 2 * (N + 1) + 2 * k] = StreamZeroOf(k)
          /\ TailOrder(a, 2 + 4 * (N + 1))

\* A write built with an attachment, both id3 flags and a record of two keys.
C10_Witness ==
    /\ BuiltWrite
    /\ call.options.attachments = <<Attach1>>
    /\ call.options.id3v1
    /\ call.options.id3v23
    /\ call.data = Record2

\* The errors the call's stream has emitted, in order.
ErrorsEmitted == SelectSeq(events, LAMBDA ev : ev.name = "error")

\* C11: once a read or write call whose process exited with a nonzero code has
\* ended, the one error it emitted (and, with a callback, handed to it) has as
\* its message the whole text the process wrote to standard error; a call whose
\* process exited with code 0 emits no error carrying that text.
C11_FailureDetail ==
    /\ (call.kind # "none" /\ Ended /\ proc.code > 0)
       => /\ Len(ErrorsEmitted) = 1
          /\ ErrorsEmitted[1].err[1].message = proc.errText
          /\ call.hasCallback
             => /\ Len(cbCalls) = 1
                /\ cbCalls[1].err # <<>>
                /\ cbCalls[1].err[1].message = proc.errText
    /\ (call.kind # "none" /\ proc.state # "spawned" /\ proc.code = 0 /\ proc.errText # <<>>)
       => \A i \in DOMAIN events :
            events[i].err = <<>> \/ events[i].err[1].message # proc.errText

\* A write that failed with text on standard error and handed it to the callback.
C11_Witness ==
    /\ Running("write")
    /\ call.hasCallback
    /\ call.pc = "settled"
    /\ proc.code > 0
    /\ proc.errText = <<"E", "r">>
    /\ cbCalls # <<>>
    /\ cbCalls[1].err[1].message = <<"E", "r">>

\* Keys and values with and without the characters the format gives a meaning.
EncoderStrings ==
    {<<"k">>, <<"k", "=">>, <<";", "k">>, <<"v">>, <<"=", "v">>, <<"x", "\n", "y">>}

\* The -metadata token the encoder makes of a key and a value.
MetadataToken(key, value) == escapeini(key) \o <<"=">> \o escapeini(value)

\* The token of the k-th key of the record of the write at hand.
BuiltToken(k) ==
    LET a == call.ret.args
    IN  a[Len(a) - 2 * Len(call.data) + 2 * (k - 1) + 1]

\* C12: the key and the value are recovered unambiguously from a -metadata
\* token of a write: no other key and value make the same token.
C12_EncoderEscaping ==
    BuiltWrite =>
      \A k \in 1..Len(call.data) :
        /\ BuiltToken(k) = MetadataToken(call.data[k][1], call.data[k][2])
        /\ \A key \in EncoderStrings, value \in EncoderStrings :
             MetadataToken(key, value) = BuiltToken(k)
             => key = call.data[k][1] /\ value = call.data[k][2]

\* The filename stem of a path: its basename without its extension.
StemOf(src) == SubSeq(basename(src), 1, Len(basename(src)) - Len(extname(src)))

\* C13: the temp path of a write is, in the source's directory, the source's
\* filename stem, then ".ffmetadata", then the source's extension.
C13_TempPathDerivation ==
    BuiltWrite =>
      /\ call.dst = join(dirname(call.src), StemOf(call.src) \o FFMETADATA \o extname(call.src))
      /\ call.ret.args[Len(call.ret.args)] = call.dst

\* C14: a write call attempts no rename and no removal before the close event
\* of its process was handled, a rename only after exit code 0, and a removal
\* first only after another code.
C14_ExitCodeGating ==
    Running("write") =>
      /\ (fsOps # <<>> \/ call.pc \in {"renaming", "unlinking"}) => proc.state = "closed"
      /\ (Attempted("rename") \/ call.pc = "renaming") => proc.code = 0
      /\ (fsOps # <<>> /\ fsOps[1].op = "unlink") => proc.code # 0

\* A write whose process failed to spawn and which, after the close event,
\* attempted the removal of the temp path.
C14_Witness ==
    /\ Running("write")
    /\ proc.state = "closed"
    /\ proc.code < 0
    /\ events # <<>>
    /\ events[1].name = "error"
    /\ fsOps # <<>>
    /\ \A i \in DOMAIN fsOps : fsOps[i].op = "unlink"

RenameFailedFirst == fsOps # <<>> /\ fsOps[1] = [op |-> "rename", ok |-> FALSE]

\* C15: a write call whose process exited with code 0 and whose rename failed
\* reports no success, and once it has ended it has attempted the removal of the
\* temp path and emitted (with a callback: handed over) the rename's error and
\* nothing else.
C15_RenameFailure ==
    (Running("write") /\ proc.code = 0 /\ RenameFailedFirst)
    => /\ call.pc \in {"unlinking", "settled", "crashed"}
       /\ \A i \in DOMAIN events : events[i].name = "error"
       /\ \A i \in DOMAIN cbCalls : cbCalls[i].err # <<>>
       /\ Ended
          => /\ Len(fsOps) = 2 /\ fsOps[2].op = "unlink"
             /\ events = <<Event("error", <<RenameError>>, <<>>)>>
             /\ call.hasCallback => cbCalls = <<[err |-> <<RenameError>>, data |-> <<>>]>>

\* A write with a callback that was handed the rename's error after a removal
\* that went through.
C15_Witness ==
    /\ Running("write")
    /\ call.hasCallback
    /\ call.pc = "settled"
    /\ proc.code = 0
    /\ fsOps = <<[op |-> "rename", ok |-> FALSE], [op |-> "unlink", ok |-> TRUE]>>
    /\ cbCalls # <<>>
    /\ cbCalls[1].err = <<RenameError>>

\* The error a failed process gives rise to: that of the spawn, or the one made
\* of its standard-error text.
OriginalError == IF proc.code < 0 THEN SpawnError ELSE ExitError(proc.errText)

\* C16: in a failed write call (nonzero exit or spawn error) with a callback, an
\* error is surfaced only once the removal of the temp path was attempted, and
\* every error surfaced is the original one, whether the removal went through
\* or not.
C16_RollbackOrder ==
    (Running("write") /\ call.hasCallback /\ proc.code # 0)
    => /\ Surfaced => Attempted("unlink")
       /\ \A i \in DOMAIN events :
            events[i].name = "error" => events[i].err = <<OriginalError>>
       /\ \A i \in DOMAIN cbCalls : cbCalls[i].err = <<OriginalError>>

\* The chunk of standard output a step delivers, and the steps that deliver
\* exactly one line to a decoder holding no unfinished line.
Chunk == SubSeq(proc.stdout, 1, Len(proc.stdout) - Len(proc'.stdout))
LineStep(line) ==
    /\ call.kind = "read"
    /\ proc.state = "running"
    /\ proc'.state = "running"
    /\ output.soFar = <<>>
    /\ Chunk = line \o <<"\n">>

HasEquals(line) == \E i \in 1..Len(line) : line[i] = "="
FirstEquals(line) == CHOOSE i \in 1..Len(line) : line[i] = "=" /\ \A j \in 1..(i - 1) : line[j] # "="
Skipped(line) == line = <<>> \/ line[1] = ";"
Names(rec) == {rec[j][1] : j \in 1..Len(rec)}

\* The map after the step differs from the map before it at most at `name`.
OthersKept(name) ==
    /\ Names(output'.data) \subseteq Names(output.data) \cup {name}
    /\ \A n \in Names(output.data) \ {name} :
         hasProp(output'.data, n) /\ getProp(output'.data, n) = getProp(output.data, n)
    /\ \A j, k \in 1..Len(output'.data) : output'.data[j][1] = output'.data[k][1] => j = k

\* C17: a line with "=" that is neither blank nor a comment sets the entry of
\* the text before its first "=" to the text after it, replacing an earlier
\* value and leaving the other keys alone, one value per key; a blank line and a
\* line beginning with ";" leave the map and the current key as they are.
C17_KeyLines ==
    [][\A line \in DecoderLines :
         LineStep(line) =>
           IF Skipped(line)
           THEN output'.data = output.data /\ output'.key = output.key
           ELSE HasEquals(line) =>
                  LET eq    == FirstEquals(line)
                      name  == SubSeq(line, 1, eq - 1)
                      value == SubSeq(line, eq + 1, Len(line))
                  IN  /\ hasProp(output'.data, name)
                      /\ getProp(output'.data, name) = value
                      /\ output'.key = <<name>>
                      /\ OthersKept(name)]_vars

\* A decoder that was given key t, a comment, and key t again in a line with a
\* second "=".
C17_Witness ==
    /\ call.kind = "read"
    /\ proc.stdoutEnded
    /\ proc.written = joinLines(<<<<"t", "=", "a">>, <<";", "t", "=", "z">>, <<"t", "=", "b", "=", "c">>>>)
    /\ output.data = <<<<<<"t">>, <<"b", "=", "c">>>>>>

\* C18: a line without "=" that follows a key line is appended to the value of
\* the current key, the escaped-newline marker the value ended with (the
\* backslash before the line break) becoming a line break; no other character
\* of the value accumulated so far changes, and no other key is affected.
C18_ContinuationLines ==
    [][\A line \in DecoderLines :
         (LineStep(line) /\ ~Skipped(line) /\ ~HasEquals(line) /\ output.key # <<>>)
         => LET name == output.key[1]
                old  == getProp(output.data, name)
                new  == getProp(output'.data, name)
                n    == Len(old)
            IN  /\ hasProp(output'.data, name)
                /\ Len(new) = n + Len(line)
                /\ \A i \in 1..n :
                     new[i] = IF i = n /\ old[i] = "\\" THEN "\n" ELSE old[i]
                /\ SubSeq(new, n + 1, Len(new)) = line
                /\ output'.key = output.key
                /\ OthersKept(name)]_vars

\* The lines of a text that reach parseLine: neither blank nor comments.
RECURSIVE Effective(_)
Effective(lines) ==
    IF lines = <<>> THEN <<>>
    ELSE IF Skipped(Head(lines)) THEN Effective(Tail(lines))
    ELSE <<Head(lines)>> \o Effective(Tail(lines))

\* The text written began, blank lines and comments apart, with a line
\* without "=".
ContinuationFirst ==
    LET lines == Effective(splitPieces(proc.written))
    IN  lines # <<>> /\ ~HasEquals(lines[1])

\* C19: a read call whose decoder was given a line without "=" before any key
\* line has, once it has come to rest, surfaced an error to the caller, and the
\* map holds no entry that line made.
C19_ContinuationBeforeKey ==
    (Running("read") /\ call.hasCallback /\ call.pc = "settled" /\ ContinuationFirst)
    => /\ Surfaced
       /\ \E i \in DOMAIN cbCalls : cbCalls[i].err # <<>>
       /\ ~hasProp(output.data, Undefined)

InFlight(i) == writers[i].pc \in {"waiting", "renaming", "unlinking"}

\* C20: of two write calls in flight at the same time on distinct sources, the
\* temp paths are distinct and neither is one of the two sources, and no file
\* one call created, renamed or removed is a file of the other call.
C20_ExclusiveTemp ==
    \A i, j \in Writers :
      (i # j /\ InFlight(i) /\ InFlight(j) /\ writers[i].src # writers[j].src)
      => /\ writers[i].dst # writers[j].dst
         /\ writers[i].dst \notin {writers[i].src, writers[j].src}
         /\ writers[i].touched
              \cap ({writers[j].src, writers[j].dst} \cup writers[j].touched) = {}

=============================================================================
